---- MODULE Spec2Model ----
(***************************************************************************)
(* Tool-access policy engine of openclaw: name normalisation, the core     *)
(* tool catalog and its groups, the plugin-only allowlist safety filter,   *)
(* the policy filter and the policy pipeline (applyToolPolicyPipeline).    *)
(*                                                                         *)
(* Strings that the program trims, lowercases, concatenates or looks up    *)
(* are sequences of one-character strings, so that normalizeToolName is    *)
(* computed character by character.  Labels and warning kinds, which the   *)
(* program only copies, are plain strings.  An optional value is <<>>      *)
(* (undefined) or <<v>>.                                                   *)
(***************************************************************************)
EXTENDS Integers, Sequences, FiniteSets, TLC

\* ------------------------------------------------------------------------
\* Bounds of the model
\* ------------------------------------------------------------------------
MaxTools == 2
MaxSteps == 2

\* ------------------------------------------------------------------------
\* String literals
\* ------------------------------------------------------------------------
id_read == <<"r", "e", "a", "d">>
id_write == <<"w", "r", "i", "t", "e">>
id_edit == <<"e", "d", "i", "t">>
id_apply_patch == <<"a", "p", "p", "l", "y", "_", "p", "a", "t", "c", "h">>
id_exec == <<"e", "x", "e", "c">>
id_process == <<"p", "r", "o", "c", "e", "s", "s">>
id_web_search == <<"w", "e", "b", "_", "s", "e", "a", "r", "c", "h">>
id_web_fetch == <<"w", "e", "b", "_", "f", "e", "t", "c", "h">>
id_memory_search == <<"m", "e", "m", "o", "r", "y", "_", "s", "e", "a", "r", "c", "h">>
id_memory_get == <<"m", "e", "m", "o", "r", "y", "_", "g", "e", "t">>
id_sessions_list == <<"s", "e", "s", "s", "i", "o", "n", "s", "_", "l", "i", "s", "t">>
id_sessions_history == <<"s", "e", "s", "s", "i", "o", "n", "s", "_", "h", "i", "s", "t", "o", "r", "y">>
id_sessions_send == <<"s", "e", "s", "s", "i", "o", "n", "s", "_", "s", "e", "n", "d">>
id_sessions_spawn == <<"s", "e", "s", "s", "i", "o", "n", "s", "_", "s", "p", "a", "w", "n">>
id_subagents == <<"s", "u", "b", "a", "g", "e", "n", "t", "s">>
id_session_status == <<"s", "e", "s", "s", "i", "o", "n", "_", "s", "t", "a", "t", "u", "s">>
id_browser == <<"b", "r", "o", "w", "s", "e", "r">>
id_canvas == <<"c", "a", "n", "v", "a", "s">>
id_message == <<"m", "e", "s", "s", "a", "g", "e">>
id_cron == <<"c", "r", "o", "n">>
id_gateway == <<"g", "a", "t", "e", "w", "a", "y">>
id_nodes == <<"n", "o", "d", "e", "s">>
id_agents_list == <<"a", "g", "e", "n", "t", "s", "_", "l", "i", "s", "t">>
id_image == <<"i", "m", "a", "g", "e">>
id_tts == <<"t", "t", "s">>
sec_fs == <<"f", "s">>
sec_runtime == <<"r", "u", "n", "t", "i", "m", "e">>
sec_web == <<"w", "e", "b">>
sec_memory == <<"m", "e", "m", "o", "r", "y">>
sec_sessions == <<"s", "e", "s", "s", "i", "o", "n", "s">>
sec_ui == <<"u", "i">>
sec_messaging == <<"m", "e", "s", "s", "a", "g", "i", "n", "g">>
sec_automation == <<"a", "u", "t", "o", "m", "a", "t", "i", "o", "n">>
sec_nodes == <<"n", "o", "d", "e", "s">>
sec_agents == <<"a", "g", "e", "n", "t", "s">>
sec_media == <<"m", "e", "d", "i", "a">>
s_bash == <<"b", "a", "s", "h">>
s_apply_dash_patch == <<"a", "p", "p", "l", "y", "-", "p", "a", "t", "c", "h">>
s_group_colon == <<"g", "r", "o", "u", "p", ":">>
s_group_openclaw == <<"g", "r", "o", "u", "p", ":", "o", "p", "e", "n", "c", "l", "a", "w">>
s_group_plugin_colon == <<"g", "r", "o", "u", "p", ":", "p", "l", "u", "g", "i", "n", ":">>
s_empty == <<>>

\* ------------------------------------------------------------------------
\* Generic helpers (JavaScript array idioms)
\* ------------------------------------------------------------------------
None == <<>>

Some(v) == <<v>>

IsSome(o) == Len(o) = 1

Get(o) == o[1]

Range(s) == {s[i] : i \in 1..Len(s)}

MapSeq(s, F(_)) == [i \in 1..Len(s) |-> F(s[i])]

RECURSIVE Flatten(_)
Flatten(ss) == IF Len(ss) = 0 THEN <<>> ELSE Head(ss) \o Flatten(Tail(ss))

\* Array.from(new Set(xs)): first occurrences, in order
RECURSIVE Dedup(_)
Dedup(xs) ==
  IF Len(xs) = 0 THEN <<>>
  ELSE LET front == Dedup(SubSeq(xs, 1, Len(xs) - 1))
           last == xs[Len(xs)]
       IN IF last \in Range(front) THEN front ELSE Append(front, last)

\* ------------------------------------------------------------------------
\* Name normaliser (tool-policy-shared.ts)
\* ------------------------------------------------------------------------
UpperChars == <<"A", "B", "C", "D", "E", "F", "G", "H", "I", "J", "K", "L", "M", "N", "O", "P", "Q", "R", "S", "T", "U", "V", "W", "X", "Y", "Z">>

LowerChars == <<"a", "b", "c", "d", "e", "f", "g", "h", "i", "j", "k", "l", "m", "n", "o", "p", "q", "r", "s", "t", "u", "v", "w", "x", "y", "z">>

WhiteSpace == {" ", "\t", "\n"}

ToLowerChar(c) ==
  IF \E i \in 1..Len(UpperChars) : UpperChars[i] = c
  THEN LowerChars[CHOOSE i \in 1..Len(UpperChars) : UpperChars[i] = c]
  ELSE c

ToLowerCase(s) == MapSeq(s, ToLowerChar)

RECURSIVE TrimStart(_)
TrimStart(s) ==
  IF Len(s) > 0 /\ Head(s) \in WhiteSpace THEN TrimStart(Tail(s)) ELSE s

RECURSIVE TrimEnd(_)
TrimEnd(s) ==
  IF Len(s) > 0 /\ s[Len(s)] \in WhiteSpace
  THEN TrimEnd(SubSeq(s, 1, Len(s) - 1))
  ELSE s

Trim(s) == TrimEnd(TrimStart(s))

TOOL_NAME_ALIASES == (s_bash :> id_exec) @@ (s_apply_dash_patch :> id_apply_patch)

\* TOOL_NAME_ALIASES is an object literal, so the lookup
\* TOOL_NAME_ALIASES[normalized] also finds what the object inherits from
\* Object.prototype.  Of the inherited property names only these two are
\* all lowercase, hence reachable after toLowerCase(); their values are not
\* strings.  A value that is not a string is written as a one-element
\* sequence holding a word, which no string of characters equals.
s_constructor == <<"c", "o", "n", "s", "t", "r", "u", "c", "t", "o", "r">>

s_proto == <<"_", "_", "p", "r", "o", "t", "o", "_", "_">>

ObjectFunction == <<"function Object">>

ObjectPrototype == <<"Object.prototype">>

\* the outcome of name.trim() on a value that has no trim method
TypeError == <<"TypeError">>

InheritedMembers == (s_constructor :> ObjectFunction) @@ (s_proto :> ObjectPrototype)

IsString(v) == v \notin {ObjectFunction, ObjectPrototype, TypeError}

normalizeToolName(name) ==
  IF ~IsString(name) THEN TypeError
  ELSE
  LET normalized == ToLowerCase(Trim(name))
  IN IF normalized \in DOMAIN TOOL_NAME_ALIASES
     THEN TOOL_NAME_ALIASES[normalized]
     ELSE IF normalized \in DOMAIN InheritedMembers
     THEN InheritedMembers[normalized]
     ELSE normalized

\* list is an optional array of names
normalizeToolList(list) ==
  IF ~IsSome(list) THEN <<>>
  ELSE SelectSeq(MapSeq(Get(list), normalizeToolName), LAMBDA n : n # s_empty)

\* ------------------------------------------------------------------------
\* Tool catalog (tool-catalog.ts)
\* ------------------------------------------------------------------------
Def(id, sec, profiles, oc) ==
  [id |-> id, sectionId |-> sec, profiles |-> profiles, includeInOpenClawGroup |-> oc]

CORE_TOOL_DEFINITIONS ==
  << Def(id_read, sec_fs, {"coding"}, FALSE),
     Def(id_write, sec_fs, {"coding"}, FALSE),
     Def(id_edit, sec_fs, {"coding"}, FALSE),
     Def(id_apply_patch, sec_fs, {"coding"}, FALSE),
     Def(id_exec, sec_runtime, {"coding"}, FALSE),
     Def(id_process, sec_runtime, {"coding"}, FALSE),
     Def(id_web_search, sec_web, {}, TRUE),
     Def(id_web_fetch, sec_web, {}, TRUE),
     Def(id_memory_search, sec_memory, {"coding"}, TRUE),
     Def(id_memory_get, sec_memory, {"coding"}, TRUE),
     Def(id_sessions_list, sec_sessions, {"coding", "messaging"}, TRUE),
     Def(id_sessions_history, sec_sessions, {"coding", "messaging"}, TRUE),
     Def(id_sessions_send, sec_sessions, {"coding", "messaging"}, TRUE),
     Def(id_sessions_spawn, sec_sessions, {"coding"}, TRUE),
     Def(id_subagents, sec_sessions, {"coding"}, TRUE),
     Def(id_session_status, sec_sessions, {"minimal", "coding", "messaging"}, TRUE),
     Def(id_browser, sec_ui, {}, TRUE),
     Def(id_canvas, sec_ui, {}, TRUE),
     Def(id_message, sec_messaging, {"messaging"}, TRUE),
     Def(id_cron, sec_automation, {"coding"}, TRUE),
     Def(id_gateway, sec_automation, {}, TRUE),
     Def(id_nodes, sec_nodes, {}, TRUE),
     Def(id_agents_list, sec_agents, {}, TRUE),
     Def(id_image, sec_media, {"coding"}, TRUE),
     Def(id_tts, sec_media, {}, TRUE) >>

ToolId(tool) == tool.id

buildCoreToolGroupMap ==
  LET sectionKeys == {s_group_colon \o d.sectionId : d \in Range(CORE_TOOL_DEFINITIONS)}
      sectionTools(k) ==
        MapSeq(SelectSeq(CORE_TOOL_DEFINITIONS,
                         LAMBDA d : s_group_colon \o d.sectionId = k), ToolId)
      openclawTools ==
        MapSeq(SelectSeq(CORE_TOOL_DEFINITIONS,
                         LAMBDA d : d.includeInOpenClawGroup), ToolId)
  IN [k \in sectionKeys \cup {s_group_openclaw} |->
        IF k \in sectionKeys THEN sectionTools(k) ELSE openclawTools]

CORE_TOOL_GROUPS == buildCoreToolGroupMap

TOOL_GROUPS == CORE_TOOL_GROUPS

expandToolGroups(list) ==
  LET normalized == normalizeToolList(list)
      one(value) == IF value \in DOMAIN TOOL_GROUPS THEN TOOL_GROUPS[value] ELSE <<value>>
  IN Dedup(Flatten(MapSeq(normalized, one)))

\* ------------------------------------------------------------------------
\* Tools, policies and pipeline steps
\*   tool   : [name, meta]      meta is what toolMeta(tool) yields:
\*                              None for a core tool, Some(pluginId) otherwise
\*   policy : [allow, deny]     each an optional list of entries
\*   step   : [policy, label, stripPluginOnlyAllowlist]
\* ------------------------------------------------------------------------
toolMeta(tool) == tool.meta

ToolName(tool) == normalizeToolName(tool.name)

\* variant: the names are taken as written, without normalizeToolName
coreToolNamesAsWritten(tools) ==
  {n \in {t.name : t \in {u \in Range(tools) : ~IsSome(toolMeta(u))}} : n # s_empty}

\* lines 75-80
coreToolNames(tools) ==
  {n \in {ToolName(t) : t \in {u \in Range(tools) : ~IsSome(toolMeta(u))}} : n # s_empty}

\* Plugin group builder: "group:plugin:<pluginId>" -> names of that plugin's tools
PluginGroupKey(tool) == s_group_plugin_colon \o Get(toolMeta(tool))

buildPluginToolGroups(tools) ==
  LET pluginTools == SelectSeq(tools, LAMBDA t : IsSome(toolMeta(t)))
      keys == {PluginGroupKey(t) : t \in Range(pluginTools)}
  IN [k \in keys |->
        MapSeq(SelectSeq(pluginTools, LAMBDA t : PluginGroupKey(t) = k), ToolName)]

\* Policy expander: group references are replaced by their members,
\* order preserved, duplicates removed; other entries stay in place.
expandList(list, groups) ==
  IF ~IsSome(list) THEN None
  ELSE Some(Dedup(Flatten(MapSeq(expandToolGroups(list),
              LAMBDA v : IF v \in DOMAIN groups THEN groups[v] ELSE <<v>>))))

expandPolicyWithPluginGroups(policy, groups) ==
  IF ~IsSome(policy) THEN None
  ELSE Some([allow |-> expandList(Get(policy).allow, groups),
             deny |-> expandList(Get(policy).deny, groups)])

\* Allowlist safety filter
IsCoreEntry(entry, coreTools) ==
  \/ normalizeToolName(entry) \in coreTools
  \/ normalizeToolName(entry) \in DOMAIN TOOL_GROUPS

IsPluginGroupEntry(entry, groups) == normalizeToolName(entry) \in DOMAIN groups

\* variant: the allowlist is dropped only when one of its entries is the
\* group of a loaded plugin
stripOnlyWithPluginGroup(policy, groups, coreTools) ==
  IF ~IsSome(policy.allow)
  THEN [policy |-> policy, unknownAllowlist |-> <<>>, strippedAllowlist |-> FALSE]
  ELSE LET allow == Get(policy.allow)
           hasCoreEntry == \E i \in 1..Len(allow) : IsCoreEntry(allow[i], coreTools)
           unknownAllowlist ==
             SelectSeq(allow, LAMBDA e : ~IsCoreEntry(e, coreTools)
                                         /\ ~IsPluginGroupEntry(e, groups))
           strippedAllowlist ==
             ~hasCoreEntry /\ \E i \in 1..Len(allow) : IsPluginGroupEntry(allow[i], groups)
       IN [policy |-> IF strippedAllowlist THEN [policy EXCEPT !.allow = None] ELSE policy,
           unknownAllowlist |-> unknownAllowlist,
           strippedAllowlist |-> strippedAllowlist]

\* An allowlist without any recognised core entry is dropped; the deny list
\* is never touched.
stripPluginOnlyAllowlist(policy, groups, coreTools) ==
  IF ~IsSome(policy.allow)
  THEN [policy |-> policy, unknownAllowlist |-> <<>>, strippedAllowlist |-> FALSE]
  ELSE LET allow == Get(policy.allow)
           hasCoreEntry == \E i \in 1..Len(allow) : IsCoreEntry(allow[i], coreTools)
           unknownAllowlist ==
             SelectSeq(allow, LAMBDA e : ~IsCoreEntry(e, coreTools)
                                         /\ ~IsPluginGroupEntry(e, groups))
           strippedAllowlist == ~hasCoreEntry /\ Len(allow) > 0
       IN [policy |-> IF strippedAllowlist THEN [policy EXCEPT !.allow = None] ELSE policy,
           unknownAllowlist |-> unknownAllowlist,
           strippedAllowlist |-> strippedAllowlist]

\* Policy filter
PolicyKeeps(policy, tool) ==
  /\ ~IsSome(policy.allow) \/ ToolName(tool) \in Range(Get(policy.allow))
  /\ ~IsSome(policy.deny) \/ ToolName(tool) \notin Range(Get(policy.deny))

filterToolsByPolicy(tools, policy) ==
  SelectSeq(tools, LAMBDA t : PolicyKeeps(policy, t))

\* ------------------------------------------------------------------------
\* Pipeline (tool-policy-pipeline.ts)
\* A label is [key, arg]: the fixed text and the trimmed name put into it.
\* A warning is the message handed to params.warn, kept by its parts.
\* ------------------------------------------------------------------------
Label(key, arg) == [key |-> key, arg |-> arg]

Step(policy, label, strip) ==
  [policy |-> policy, label |-> label, stripPluginOnlyAllowlist |-> strip]

Warning(kind, label, entries, suffix, profileName, effective) ==
  [kind |-> kind, label |-> label, entries |-> entries, suffix |-> suffix,
   profileName |-> profileName, effective |-> effective]

NoLabel == Label("", s_empty)

\* optional string, trimmed: params.profile?.trim()
TrimOpt(o) == IF IsSome(o) THEN Some(Trim(Get(o))) ELSE None

\* `${x} ? ... : ...` on an optional string: undefined and "" are falsy
Truthy(o) == IsSome(o) /\ Get(o) # s_empty

\* lines 35, 40-42, 53, 58: the labels that carry a name
profileLabel(params) ==
  LET profile == TrimOpt(params.profile)
  IN IF Truthy(profile) THEN Label("tools.profile (<profile>)", Get(profile))
                        ELSE Label("tools.profile", s_empty)

providerProfileLabel(params) ==
  LET providerProfile == TrimOpt(params.providerProfile)
  IN IF Truthy(providerProfile)
     THEN Label("tools.byProvider.profile (<providerProfile>)", Get(providerProfile))
     ELSE Label("tools.byProvider.profile", s_empty)

agentLabel(params) ==
  LET agentId == TrimOpt(params.agentId)
  IN IF Truthy(agentId) THEN Label("agents.<agentId>.tools.allow", Get(agentId))
                        ELSE Label("agent tools.allow", s_empty)

agentProviderLabel(params) ==
  LET agentId == TrimOpt(params.agentId)
  IN IF Truthy(agentId) THEN Label("agents.<agentId>.tools.byProvider.allow", Get(agentId))
                        ELSE Label("agent tools.byProvider.allow", s_empty)

\* variant: the group step is built without the stripPluginOnlyAllowlist flag
buildDefaultStepsGroupUnflagged(params) ==
  << Step(params.profilePolicy, profileLabel(params), TRUE),
     Step(params.providerProfilePolicy, providerProfileLabel(params), TRUE),
     Step(params.globalPolicy, Label("tools.allow", s_empty), TRUE),
     Step(params.globalProviderPolicy, Label("tools.byProvider.allow", s_empty), TRUE),
     Step(params.agentPolicy, agentLabel(params), TRUE),
     Step(params.agentProviderPolicy, agentProviderLabel(params), TRUE),
     Step(params.groupPolicy, Label("group tools.allow", s_empty), FALSE) >>

buildDefaultToolPolicyPipelineSteps(params) ==
  << Step(params.profilePolicy, profileLabel(params), TRUE),
     Step(params.providerProfilePolicy, providerProfileLabel(params), TRUE),
     Step(params.globalPolicy, Label("tools.allow", s_empty), TRUE),
     Step(params.globalProviderPolicy, Label("tools.byProvider.allow", s_empty), TRUE),
     Step(params.agentPolicy, agentLabel(params), TRUE),
     Step(params.agentProviderPolicy, agentProviderLabel(params), TRUE),
     Step(params.groupPolicy, Label("group tools.allow", s_empty), TRUE) >>

\* lines 93-106: the policy a step filters with
stepResolved(inputTools, step) ==
  stripPluginOnlyAllowlist(Get(step.policy), buildPluginToolGroups(inputTools),
                           coreToolNames(inputTools))

\* variant: the policy returned by the safety filter is not taken over
stepPolicyAsConfigured(inputTools, step) == Get(step.policy)

\* variant: a stripped allowlist takes the step's deny list with it
stepPolicyDroppedWhole(inputTools, step) ==
  IF step.stripPluginOnlyAllowlist
  THEN IF stepResolved(inputTools, step).strippedAllowlist
       THEN [allow |-> None, deny |-> None]
       ELSE stepResolved(inputTools, step).policy
  ELSE Get(step.policy)

stepPolicy(inputTools, step) ==
  IF step.stripPluginOnlyAllowlist
  THEN stepResolved(inputTools, step).policy
  ELSE Get(step.policy)

UnknownEntriesWarning(step, resolved) ==
  Warning("unknown entries", step.label, resolved.unknownAllowlist,
          IF resolved.strippedAllowlist THEN "Ignoring allowlist" ELSE "won't match",
          "", <<>>)

\* variant: the warning is passed whether or not the step has the flag
stepWarningsUnguarded(inputTools, step) ==
  LET resolved == stepResolved(inputTools, step)
  IN IF Len(resolved.unknownAllowlist) > 0
     THEN << UnknownEntriesWarning(step, resolved) >>
     ELSE <<>>

\* variant: no warning when the allowlist was stripped
stepWarningsUnlessStripped(inputTools, step) ==
  IF step.stripPluginOnlyAllowlist
  THEN LET resolved == stepResolved(inputTools, step)
       IN IF Len(resolved.unknownAllowlist) > 0 /\ ~resolved.strippedAllowlist
          THEN << UnknownEntriesWarning(step, resolved) >>
          ELSE <<>>
  ELSE <<>>

\* lines 94-104: what the step passes to params.warn
stepWarnings(inputTools, step) ==
  IF step.stripPluginOnlyAllowlist
  THEN LET resolved == stepResolved(inputTools, step)
       IN IF Len(resolved.unknownAllowlist) > 0
          THEN << UnknownEntriesWarning(step, resolved) >>
          ELSE <<>>
  ELSE <<>>

\* variant: coreToolNames and pluginGroups are taken from the working list
\* of the step instead of params.tools
stepFilteredVerdictFromWorking(inputTools, working, step) ==
  LET groups == buildPluginToolGroups(working)
      policy == IF step.stripPluginOnlyAllowlist
                THEN stripPluginOnlyAllowlist(Get(step.policy), groups,
                                              coreToolNames(working)).policy
                ELSE Get(step.policy)
      expanded == expandPolicyWithPluginGroups(Some(policy), groups)
  IN IF IsSome(expanded) THEN filterToolsByPolicy(working, Get(expanded)) ELSE working

\* variant: each step filters params.tools instead of the working list
stepFilteredFromInput(inputTools, working, step) ==
  LET expanded == expandPolicyWithPluginGroups(Some(stepPolicy(inputTools, step)),
                                               buildPluginToolGroups(inputTools))
  IN IF IsSome(expanded) THEN filterToolsByPolicy(inputTools, Get(expanded)) ELSE working

\* lines 108-109: the working list after the step
stepFiltered(inputTools, working, step) ==
  LET expanded == expandPolicyWithPluginGroups(Some(stepPolicy(inputTools, step)),
                                               buildPluginToolGroups(inputTools))
  IN IF IsSome(expanded) THEN filterToolsByPolicy(working, Get(expanded)) ELSE working

\* variant: the session_status branch does not test filtered.length === 1
postWarningsAnyLength(working, context) ==
  IF ~IsSome(context) THEN <<>>
  ELSE LET ctx == Get(context)
           remaining == {ToolName(t) : t \in Range(working)}
           headline == IF IsSome(ctx.headlineTools) THEN Get(ctx.headlineTools) ELSE <<>>
           names == MapSeq(working, LAMBDA t : t.name)
       IN IF Len(working) = 0
          THEN << Warning("zero tools", NoLabel, <<>>, "", ctx.profileName, <<>>) >>
          ELSE IF id_session_status \in remaining
          THEN << Warning("only session_status", NoLabel, <<>>, "", ctx.profileName, <<>>) >>
          ELSE IF /\ Len(headline) > 0
                  /\ \A k \in 1..Len(headline) : normalizeToolName(headline[k]) \notin remaining
          THEN << Warning("headline tools", NoLabel, headline, "", ctx.profileName, names) >>
          ELSE <<>>

\* lines 113-132: post-pipeline runtime warning
postWarnings(working, context) ==
  IF ~IsSome(context) THEN <<>>
  ELSE LET ctx == Get(context)
           remaining == {ToolName(t) : t \in Range(working)}
           headline == IF IsSome(ctx.headlineTools) THEN Get(ctx.headlineTools) ELSE <<>>
           names == MapSeq(working, LAMBDA t : t.name)
       IN IF Len(working) = 0
          THEN << Warning("zero tools", NoLabel, <<>>, "", ctx.profileName, <<>>) >>
          ELSE IF Len(working) = 1 /\ id_session_status \in remaining
          THEN << Warning("only session_status", NoLabel, <<>>, "", ctx.profileName, <<>>) >>
          ELSE IF /\ Len(headline) > 0
                  /\ \A k \in 1..Len(headline) : normalizeToolName(headline[k]) \notin remaining
          THEN << Warning("headline tools", NoLabel, headline, "", ctx.profileName, names) >>
          ELSE <<>>

\* ------------------------------------------------------------------------
\* Inputs of one invocation of applyToolPolicyPipeline
\* ------------------------------------------------------------------------
s_wat == <<"w", "a", "t">>
s_foo == <<"f", "o", "o">>
s_p1 == <<"p", "1">>
s_Bash == <<"B", "a", "s", "h">>
s_Exec == <<" ", "E", "x", "e", "c">>
s_group_plugin_foo == s_group_plugin_colon \o s_foo
Digits == <<"1", "2", "3", "4", "5", "6", "7", "8", "9">>

Tool(name, meta) == [name |-> name, meta |-> meta]

Policy(allow, deny) == [allow |-> allow, deny |-> deny]

\* a core tool whose name normalises to exec, another core tool, a tool of plugin foo
ToolPool ==
  { Tool(s_Bash, None), Tool(id_session_status, None), Tool(s_p1, Some(s_foo)) }

InjectiveSeqs(S, n) ==
  {q \in UNION {[1..k -> S] : k \in 0..n} : \A a, b \in 1..Len(q) : a # b => q[a] # q[b]}

ToolLists == InjectiveSeqs(ToolPool, MaxTools)

\* policies with the safety filter enabled / disabled
StripPolicies ==
  { Policy(Some(<<s_wat>>), None),
    Policy(Some(<<s_group_plugin_foo>>), None),
    Policy(Some(<<s_p1>>), None),
    Policy(Some(<<id_exec, s_wat>>), None),
    Policy(Some(<<s_group_colon \o sec_runtime>>), None),
    Policy(None, Some(<<s_bash>>)),
    Policy(Some(<<s_group_plugin_foo>>), Some(<<s_p1>>)),
    Policy(Some(<<s_Exec, s_group_plugin_foo>>), Some(<<s_bash>>)) }

PlainPolicies ==
  { Policy(Some(<<s_p1>>), None),
    Policy(Some(<<id_exec, id_session_status>>), None),
    Policy(None, Some(<<s_p1>>)) }

StepsAt(k) ==
  LET label == Label("step", <<Digits[k]>>)
  IN {Step(None, label, TRUE)}
     \cup {Step(Some(p), label, TRUE) : p \in StripPolicies}
     \cup {Step(Some(p), label, FALSE) : p \in PlainPolicies}

StepLists ==
  {q \in UNION {[1..k -> UNION {StepsAt(j) : j \in 1..k}] : k \in 0..MaxSteps} :
     \A j \in 1..Len(q) : q[j] \in StepsAt(j)}

Contexts ==
  { None,
    Some([profileName |-> "marketing", headlineTools |-> None]),
    Some([profileName |-> "marketing", headlineTools |-> Some(<<s_Exec, s_wat>>)]) }

\* ------------------------------------------------------------------------
\* State of a caller of the name normaliser: the name and the list it
\* passes, and what normalizeToolName and normalizeToolList return.
\* ------------------------------------------------------------------------
VARIABLES name, list, once, twice, listOut, npc

normalizerVars == <<name, list, once, twice, listOut, npc>>

NormalizerIdle ==
  /\ name = s_empty
  /\ list = None
  /\ once = None
  /\ twice = None
  /\ listOut = <<>>
  /\ npc = "idle"

\* ------------------------------------------------------------------------
\* State of resolveNamedToolProfilePolicy: its parameters, the locals of
\* the walk along the extends chain, and what it returns.
\* ------------------------------------------------------------------------
VARIABLES profileName, namedProfiles, chain, visited, current, allAllow,
          allDeny, result, rpc

resolverVars == <<profileName, namedProfiles, chain, visited, current,
                  allAllow, allDeny, result, rpc>>

ResolverIdle ==
  /\ profileName = ""
  /\ namedProfiles = <<>>
  /\ chain = <<>>
  /\ visited = {}
  /\ current = None
  /\ allAllow = <<>>
  /\ allDeny = <<>>
  /\ result = None
  /\ rpc = "idle"

\* ------------------------------------------------------------------------
\* State of the session override store and of the callers that update it:
\*   store          the persisted record of every session key (or none)
\*   lock           the holder of the per-key update lock (or none)
\*   sessionEntry   the in-memory entry of the session (or none), the
\*                  object every handler call of the session is given
\*   handlerParams  the parameters of each call of handleToolsResetCommand
\*   ppc            the position of every process
\*   existing       the record an update has loaded for its mutator
\*   hadOverrides   the handler's local of that name
\*   handlerResult  what each handler call has returned
\*   updaterCall    the update another caller of the store performs
\* ------------------------------------------------------------------------
VARIABLES store, lock, sessionEntry, handlerParams, ppc, existing,
          hadOverrides, handlerResult, updaterCall

sessionVars == <<store, lock, sessionEntry, handlerParams, ppc, existing,
                 hadOverrides, handlerResult, updaterCall>>

SessionIdle ==
  /\ store = <<>>
  /\ lock = <<>>
  /\ sessionEntry = None
  /\ handlerParams = <<>>
  /\ ppc = <<>>
  /\ existing = <<>>
  /\ hadOverrides = <<>>
  /\ handlerResult = <<>>
  /\ updaterCall = None

\* ------------------------------------------------------------------------
\* State of a call of resolveToolProfilePolicy and of the filtering that
\* uses its result.
\*   namedProfilesGiven  whether the argument namedProfiles is passed
\*   resolvedPolicy      the policy returned, None for undefined
\*   retained            the tool list filtered with that policy
\* ------------------------------------------------------------------------
VARIABLES namedProfilesGiven, resolvedPolicy, retained

callerVars == <<namedProfilesGiven, resolvedPolicy, retained>>

CallerIdle ==
  /\ namedProfilesGiven = TRUE
  /\ resolvedPolicy = None
  /\ retained = <<>>

outsidePipeline == <<normalizerVars, resolverVars, sessionVars, callerVars>>

\* ------------------------------------------------------------------------
\* State: the parameters of the call, the loop's locals and the warn sink.
\* run and firstResult drive a second call on the first call's result.
\* ------------------------------------------------------------------------
VARIABLES tools, steps, namedProfileContext, filtered, stepIndex, warnings, pc,
          run, firstResult

pipelineVars == <<tools, steps, namedProfileContext, filtered, stepIndex,
                  warnings, pc, run, firstResult>>

vars == <<pipelineVars, outsidePipeline>>

params == <<tools, steps, namedProfileContext>>

Init ==
  /\ tools \in ToolLists
  /\ steps \in StepLists
  /\ namedProfileContext \in Contexts
  /\ filtered = tools
  /\ stepIndex = 1
  /\ warnings = <<>>
  /\ pc = "loop"
  /\ run = 1
  /\ firstResult = <<>>
  /\ NormalizerIdle
  /\ ResolverIdle
  /\ SessionIdle
  /\ CallerIdle

\* line 89: a step without a policy is skipped
SkipStep ==
  /\ pc = "loop"
  /\ stepIndex <= Len(steps)
  /\ ~IsSome(steps[stepIndex].policy)
  /\ stepIndex' = stepIndex + 1
  /\ UNCHANGED <<params, filtered, warnings, pc, run, firstResult>>
  /\ UNCHANGED outsidePipeline

\* lines 93-109: one iteration of the loop
ApplyStep ==
  /\ pc = "loop"
  /\ stepIndex <= Len(steps)
  /\ IsSome(steps[stepIndex].policy)
  /\ warnings' = warnings \o stepWarnings(tools, steps[stepIndex])
  /\ filtered' = stepFiltered(tools, filtered, steps[stepIndex])
  /\ stepIndex' = stepIndex + 1
  /\ UNCHANGED <<params, pc, run, firstResult>>
  /\ UNCHANGED outsidePipeline

\* lines 112-134: the runtime warning, then return filtered
Finish ==
  /\ pc = "loop"
  /\ stepIndex > Len(steps)
  /\ warnings' = warnings \o postWarnings(filtered, namedProfileContext)
  /\ pc' = "done"
  /\ UNCHANGED <<params, filtered, stepIndex, run, firstResult>>
  /\ UNCHANGED outsidePipeline

\* the caller runs the same pipeline again on the result
RunAgain ==
  /\ pc = "done"
  /\ run = 1
  /\ firstResult' = filtered
  /\ tools' = filtered
  /\ filtered' = filtered
  /\ stepIndex' = 1
  /\ warnings' = <<>>
  /\ pc' = "loop"
  /\ run' = 2
  /\ UNCHANGED <<steps, namedProfileContext>>
  /\ UNCHANGED outsidePipeline

Next == SkipStep \/ ApplyStep \/ Finish \/ RunAgain

Spec == Init /\ [][Next]_vars

\* ------------------------------------------------------------------------
\* The default layering: the steps come from buildDefaultToolPolicyPipelineSteps
\* ------------------------------------------------------------------------
s_coding == <<" ", "c", "o", "d", "i", "n", "g", " ">>
s_main == <<"m", "a", "i", "n">>
s_blank == <<" ", " ">>

OptionalPolicy(p) == {None, Some(p)}

DefaultParams ==
  [ profilePolicy : OptionalPolicy(Policy(Some(<<id_exec, id_session_status>>), None)),
    profile : {None, Some(s_coding)},
    providerProfilePolicy : OptionalPolicy(Policy(Some(<<s_group_plugin_foo>>), None)),
    providerProfile : {None, Some(s_coding)},
    globalPolicy : OptionalPolicy(Policy(Some(<<s_wat>>), None)),
    globalProviderPolicy : OptionalPolicy(Policy(None, Some(<<s_p1>>))),
    agentPolicy : OptionalPolicy(Policy(Some(<<s_Exec>>), None)),
    agentProviderPolicy : OptionalPolicy(Policy(None, Some(<<s_bash>>))),
    groupPolicy : OptionalPolicy(Policy(Some(<<id_session_status>>), None)),
    agentId : {None, Some(s_main), Some(s_blank)} ]

InitDefault ==
  /\ tools \in ToolLists
  /\ \E p \in DefaultParams : steps = buildDefaultToolPolicyPipelineSteps(p)
  /\ namedProfileContext = None
  /\ filtered = tools
  /\ stepIndex = 1
  /\ warnings = <<>>
  /\ pc = "loop"
  /\ run = 1
  /\ firstResult = <<>>
  /\ NormalizerIdle
  /\ ResolverIdle
  /\ SessionIdle
  /\ CallerIdle

SpecDefault == InitDefault /\ [][Next]_vars

\* the pipeline at rest, for the behaviours of the other components
PipelineIdle ==
  /\ tools = <<>>
  /\ steps = <<>>
  /\ namedProfileContext = None
  /\ filtered = <<>>
  /\ stepIndex = 1
  /\ warnings = <<>>
  /\ pc = "idle"
  /\ run = 1
  /\ firstResult = <<>>

outsideNormalizer == <<pipelineVars, resolverVars, sessionVars, callerVars>>

outsideResolver == <<pipelineVars, normalizerVars, sessionVars, callerVars>>

outsideProfile == <<pipelineVars, normalizerVars, sessionVars>>

outsideSession == <<pipelineVars, normalizerVars, resolverVars, callerVars>>

\* ------------------------------------------------------------------------
\* Vocabulary of the properties
\* ------------------------------------------------------------------------
RECURSIVE IsSubsequence(_, _)
IsSubsequence(a, b) ==
  IF Len(a) = 0 THEN TRUE
  ELSE IF Len(b) = 0 THEN FALSE
  ELSE IF Head(a) = Head(b) THEN IsSubsequence(Tail(a), Tail(b))
  ELSE IsSubsequence(a, Tail(b))

IsCoreTool(t) == ~IsSome(t.meta)

\* the step the loop is about to process
AtStep == pc = "loop" /\ stepIndex <= Len(steps)

Current == steps[stepIndex]

HasAllow(step) == IsSome(step.policy) /\ IsSome(Get(step.policy).allow)

HasDeny(step) == IsSome(step.policy) /\ IsSome(Get(step.policy).deny)

AllowOf(step) == Get(Get(step.policy).allow)

DenyOf(step) == Get(Get(step.policy).deny)

\* entry e of an allow or deny list names tool t: by its normalised name,
\* through a core group, or through the group of t's plugin
EntryNames(e, t) ==
  LET n == normalizeToolName(e)
  IN \/ n = normalizeToolName(t.name)
     \/ n \in DOMAIN CORE_TOOL_GROUPS /\ normalizeToolName(t.name) \in Range(CORE_TOOL_GROUPS[n])
     \/ IsSome(t.meta) /\ n = s_group_plugin_colon \o Get(t.meta)

Allowed(step, t) == \E e \in Range(AllowOf(step)) : EntryNames(e, t)

Denied(step, t) == HasDeny(step) /\ \E e \in Range(DenyOf(step)) : EntryNames(e, t)

\* entry e is a core tool of the input, or a section/openclaw group
NamesCore(e) ==
  \/ \E t \in Range(tools) : IsCoreTool(t) /\ normalizeToolName(e) = normalizeToolName(t.name)
  \/ normalizeToolName(e) \in DOMAIN CORE_TOOL_GROUPS

\* entry e is a tool of a loaded plugin, or the group of a loaded plugin
NamesPlugin(e) == \E t \in Range(tools) : ~IsCoreTool(t) /\ EntryNames(e, t)

NamesPluginGroup(e) ==
  \E t \in Range(tools) :
    ~IsCoreTool(t) /\ normalizeToolName(e) = s_group_plugin_colon \o Get(t.meta)

PluginOnlyAllow(step) ==
  /\ HasAllow(step) /\ step.stripPluginOnlyAllowlist
  /\ Len(AllowOf(step)) > 0
  /\ \A e \in Range(AllowOf(step)) : NamesPlugin(e) /\ ~NamesCore(e)

CoreAllow(step) ==
  /\ HasAllow(step) /\ step.stripPluginOnlyAllowlist
  /\ \E e \in Range(AllowOf(step)) : NamesCore(e)

UnknownOnlyAllow(step) ==
  /\ HasAllow(step) /\ step.stripPluginOnlyAllowlist
  /\ Len(AllowOf(step)) > 0
  /\ \A e \in Range(AllowOf(step)) : ~NamesCore(e) /\ ~NamesPluginGroup(e)

UnknownWarnings(ws) == {k \in 1..Len(ws) : ws[k].kind = "unknown entries"}

PostKinds == {"zero tools", "only session_status", "headline tools"}

PostWarnings(ws) == {k \in 1..Len(ws) : ws[k].kind \in PostKinds}

KindWarned(kind) == \E k \in 1..Len(warnings) : warnings[k].kind = kind

\* ------------------------------------------------------------------------
\* C1  Every step leaves a subsequence of the working list it found, and so
\*     of the input list: nothing is introduced or re-added, order is kept.
\* ------------------------------------------------------------------------
C1_NarrowOnly ==
  [][IsSubsequence(filtered', filtered) /\ IsSubsequence(filtered', tools')]_vars

\* two steps ran, the second allowlist names every tool the first names and
\* one more, and that tool stays removed
C1_Witness ==
  /\ run = 1 /\ stepIndex = 3
  /\ HasAllow(steps[1]) /\ HasAllow(steps[2])
  /\ \A t \in Range(tools) : Allowed(steps[1], t) => Allowed(steps[2], t)
  /\ \E t \in Range(tools) :
       /\ t \notin Range(filtered)
       /\ Allowed(steps[2], t) /\ ~Allowed(steps[1], t) /\ ~Denied(steps[2], t)
  /\ Len(filtered) > 0

\* ------------------------------------------------------------------------
\* C2  Deny dominance: once a step whose deny list names a tool has run, no
\*     tool of that normalised name is in the working list, nor in the output.
\* ------------------------------------------------------------------------
C2_DenyDominance ==
  \A j \in 1..Len(steps) :
    (j < stepIndex /\ HasDeny(steps[j])) =>
      \A t \in Range(filtered) : ~Denied(steps[j], t)

\* the output of a call in which a stripped allowlist's own deny list, and an
\* allowlist naming the denied tool, met a tool of that name in the input
C2_Witness ==
  /\ pc = "done" /\ run = 1
  /\ \E j \in 1..Len(steps) :
       /\ HasDeny(steps[j]) /\ HasAllow(steps[j])
       /\ stepResolved(tools, steps[j]).strippedAllowlist
       /\ \E t \in Range(tools) : Denied(steps[j], t) /\ Allowed(steps[j], t)
  /\ Len(filtered) > 0

\* ------------------------------------------------------------------------
\* C3  Idempotence: the pipeline run on its own output, with the same steps,
\*     returns that output.
\* ------------------------------------------------------------------------
C3_Idempotent == (run = 2 /\ pc = "done") => filtered = firstResult

\* the second run is over, and in it the safety filter stripped an allowlist
\* that names the core tool exec, which the first run's result no longer has
C3_Witness ==
  /\ run = 2 /\ pc = "done"
  /\ Len(filtered) > 0
  /\ \E j \in 1..Len(steps) :
       /\ HasAllow(steps[j]) /\ steps[j].stripPluginOnlyAllowlist
       /\ \E e \in Range(AllowOf(steps[j])) : normalizeToolName(e) = id_exec
       /\ stepResolved(tools, steps[j]).strippedAllowlist

\* ------------------------------------------------------------------------
\* C4  A strip-enabled step whose allowlist names only tools or groups of
\*     loaded plugins drops the allowlist: it keeps exactly the tools of the
\*     working list that its deny list does not name.
\* ------------------------------------------------------------------------
C4_PluginOnlyNeutralized ==
  [][(AtStep /\ PluginOnlyAllow(Current)) =>
       filtered' = SelectSeq(filtered, LAMBDA t : ~Denied(Current, t))]_vars

\* such a step ran first and a core tool survived it
C4_Witness ==
  /\ run = 1 /\ stepIndex = 2
  /\ PluginOnlyAllow(steps[1])
  /\ \E t \in Range(filtered) : IsCoreTool(t)

\* ------------------------------------------------------------------------
\* C5  A strip-enabled step whose allowlist names a core tool of the input
\*     (or a core group) keeps its allowlist and retains exactly the tools
\*     that the expanded allowlist names and the deny list does not.
\* ------------------------------------------------------------------------
C5_CoreAllowApplied ==
  [][(AtStep /\ CoreAllow(Current)) =>
       /\ stepPolicy(tools, Current) = Get(Current.policy)
       /\ filtered' = SelectSeq(filtered,
                        LAMBDA t : Allowed(Current, t) /\ ~Denied(Current, t))]_vars

\* such a step ran first, removed a core tool and kept another
C5_Witness ==
  /\ run = 1 /\ stepIndex = 2
  /\ CoreAllow(steps[1])
  /\ \E t \in Range(tools) : IsCoreTool(t) /\ t \notin Range(filtered)
  /\ \E t \in Range(filtered) : IsCoreTool(t)

C7_StrippingWarned ==
  \A j \in 1..Len(steps) :
    ( /\ j < stepIndex
      /\ HasAllow(steps[j]) /\ steps[j].stripPluginOnlyAllowlist
      /\ ~IsSome(stepPolicy(tools, steps[j]).allow) )
    => \E k \in 1..Len(warnings) : warnings[k].label = steps[j].label

\* ------------------------------------------------------------------------
\* C8  (as stated) the unknown-allowlist-entries warning reaches the warn
\*     sink at most once in one invocation.
\* ------------------------------------------------------------------------
C8_UnknownWarnedOnce == Cardinality(UnknownWarnings(warnings)) <= 1

\* C8  (amended) every step passes its unknown-allowlist-entries warning at
\*     most once, and only a step with the flag and an allowlist passes one;
\*     the post-pipeline runtime warning is passed at most once.
C8_WarnedOncePerStep ==
  /\ \A k \in UnknownWarnings(warnings) :
       \E j \in 1..Len(steps) : j < stepIndex /\ warnings[k].label = steps[j].label
  /\ \A j \in 1..Len(steps) :
       Cardinality({k \in UnknownWarnings(warnings) : warnings[k].label = steps[j].label})
         <= IF HasAllow(steps[j]) /\ steps[j].stripPluginOnlyAllowlist THEN 1 ELSE 0
  /\ Cardinality(PostWarnings(warnings)) <= 1

\* two steps of one invocation have each passed the warning
C8_Witness ==
  /\ pc = "done" /\ run = 1
  /\ Cardinality(UnknownWarnings(warnings)) = 2

\* ------------------------------------------------------------------------
\* C9  After the steps, with a named profile context, at most one runtime
\*     warning is passed: zero tools; else only session_status; else headline
\*     tools lost.  Without a context, or when a headline tool survives in a
\*     result that is neither empty nor just session_status, none is passed.
\* ------------------------------------------------------------------------
C9_PostDiagnostics ==
  pc = "done" =>
    LET has == IsSome(namedProfileContext)
        names == {normalizeToolName(t.name) : t \in Range(filtered)}
        empty == Len(filtered) = 0
        onlyStatus == Len(filtered) = 1 /\ names = {id_session_status}
        headline == IF has /\ IsSome(Get(namedProfileContext).headlineTools)
                    THEN Get(Get(namedProfileContext).headlineTools)
                    ELSE <<>>
        lost == /\ Len(headline) > 0
                /\ \A h \in Range(headline) : normalizeToolName(h) \notin names
    IN /\ Cardinality(PostWarnings(warnings)) <= 1
       /\ KindWarned("zero tools") <=> (has /\ empty)
       /\ KindWarned("only session_status") <=> (has /\ ~empty /\ onlyStatus)
       /\ KindWarned("headline tools") <=> (has /\ ~empty /\ ~onlyStatus /\ lost)

\* the headline warning was passed for a result that still has session_status
C9_Witness ==
  /\ pc = "done" /\ run = 1
  /\ KindWarned("headline tools")
  /\ \E t \in Range(filtered) : normalizeToolName(t.name) = id_session_status

\* ------------------------------------------------------------------------
\* C10 The default layering has seven steps in the fixed order, all with the
\*     safety filter enabled; a step whose policy is absent stays in the list
\*     and is passed over without a change of the working list or a warning.
\* ------------------------------------------------------------------------
DefaultLabelKeys ==
  << {"tools.profile", "tools.profile (<profile>)"},
     {"tools.byProvider.profile", "tools.byProvider.profile (<providerProfile>)"},
     {"tools.allow"},
     {"tools.byProvider.allow"},
     {"agent tools.allow", "agents.<agentId>.tools.allow"},
     {"agent tools.byProvider.allow", "agents.<agentId>.tools.byProvider.allow"},
     {"group tools.allow"} >>

C10_DefaultLayering ==
  [][ /\ Len(steps) = 7
      /\ \A k \in 1..Len(steps) :
           /\ k <= 7 => steps[k].label.key \in DefaultLabelKeys[k]
           /\ steps[k].stripPluginOnlyAllowlist
      /\ (AtStep /\ ~IsSome(Current.policy)) =>
           /\ filtered' = filtered
           /\ warnings' = warnings
           /\ steps' = steps
           /\ stepIndex' = stepIndex + 1 ]_vars

\* the loop passed over an absent policy and then applied the group policy
C10_Witness ==
  /\ run = 1 /\ stepIndex = 8
  /\ Len(steps) = 7
  /\ \E k \in 1..6 : ~IsSome(steps[k].policy)
  /\ IsSome(steps[7].policy)
  /\ Len(filtered) < Len(tools)

\* ------------------------------------------------------------------------
\* The name normaliser called twice on a name, then normalizeToolList on a
\* list (tool-policy-shared.ts, lines 21-31)
\* ------------------------------------------------------------------------
MaxNameLen == 3

MaxListLen == 2

AllSeqs(S, n) == UNION {[1..k -> S] : k \in 0..n}

s_Constructor == <<" ", "C", "o", "n", "s", "t", "r", "u", "c", "t", "o", "r">>

s_Apply_Patch == <<"A", "p", "p", "l", "y", "-", "P", "a", "t", "c", "h", "\t">>

NameChars == {" ", "B", "a"}

NamePool ==
  AllSeqs(NameChars, MaxNameLen)
    \cup { s_bash, s_Bash, s_apply_dash_patch, s_Apply_Patch, id_exec, s_Exec,
           id_apply_patch, s_wat, s_constructor, s_Constructor, s_proto }

ListPool ==
  {None} \cup {Some(l) : l \in AllSeqs({s_empty, s_blank, s_Bash, s_wat}, MaxListLen)}

InitNormalize ==
  /\ name \in NamePool
  /\ list \in ListPool
  /\ once = None
  /\ twice = None
  /\ listOut = <<>>
  /\ npc = "call"
  /\ PipelineIdle
  /\ ResolverIdle
  /\ SessionIdle
  /\ CallerIdle

\* normalizeToolName(name)
NormalizeOnce ==
  /\ npc = "call"
  /\ once' = Some(normalizeToolName(name))
  /\ npc' = "once"
  /\ UNCHANGED <<name, list, twice, listOut>>
  /\ UNCHANGED outsideNormalizer

\* normalizeToolName applied to its own result
NormalizeTwice ==
  /\ npc = "once"
  /\ twice' = Some(normalizeToolName(Get(once)))
  /\ npc' = "twice"
  /\ UNCHANGED <<name, list, once, listOut>>
  /\ UNCHANGED outsideNormalizer

\* normalizeToolList(list)
NormalizeList ==
  /\ npc = "twice"
  /\ listOut' = normalizeToolList(list)
  /\ npc' = "done"
  /\ UNCHANGED <<name, list, once, twice>>
  /\ UNCHANGED outsideNormalizer

NextNormalize == NormalizeOnce \/ NormalizeTwice \/ NormalizeList

SpecNormalize == InitNormalize /\ [][NextNormalize]_vars

\* ------------------------------------------------------------------------
\* C11  normalizeToolName is idempotent for every input name: normalising
\*      the result of a normalisation returns that result again; and no
\*      name returned by normalizeToolList is empty.
\* ------------------------------------------------------------------------
C11_NormalizeIdempotent ==
  /\ IsSome(twice) => Get(twice) = Get(once)
  /\ npc = "done" => \A i \in 1..Len(listOut) : listOut[i] # s_empty

\* ------------------------------------------------------------------------
\* Profile resolver (tool-catalog.ts, lines 242-383)
\*   named profile : [extends, allow, deny], each optional
\*   namedProfiles : a function from profile names to named profiles
\* Profile names are only looked up, never transformed: plain strings.
\* ------------------------------------------------------------------------
MAX_EXTENDS_DEPTH == 5

listCoreToolIdsForProfile(profile) ==
  MapSeq(SelectSeq(CORE_TOOL_DEFINITIONS, LAMBDA d : profile \in d.profiles), ToolId)

CORE_TOOL_PROFILES ==
  [p \in {"minimal", "coding", "messaging", "full"} |->
     IF p = "full" THEN Policy(None, None)
     ELSE Policy(Some(listCoreToolIdsForProfile(p)), None)]

NamedProfile(extends, allow, deny) == [extends |-> extends, allow |-> allow, deny |-> deny]

\* obj[key] on an object literal or a parsed configuration object: an own
\* property, else a member inherited from Object.prototype, which has none
\* of the fields extends, allow, deny
InheritedKeys == {"constructor", "__proto__", "toString", "valueOf", "hasOwnProperty"}

InheritedObject == NamedProfile(None, None, None)

Lookup(obj, key) ==
  IF key \in DOMAIN obj THEN Some(obj[key])
  ELSE IF key \in InheritedKeys THEN Some(InheritedObject)
  ELSE None

OrEmpty(o) == IF IsSome(o) THEN Get(o) ELSE <<>>

\* variant of line 346 without the depth cap: only a repeated name stops
walkStopsOnRepeatOnly(chainNow, visitedNow, parentName) == parentName \in visitedNow

\* lines 345-346: the two breaks before the parent is entered
walkStops(chainNow, visitedNow, parentName) ==
  \/ parentName \in visitedNow
  \/ Len(chainNow) >= MAX_EXTENDS_DEPTH

\* variant of line 363 without the deny filter
effectiveAllowUnfiltered(allow, deny) == Dedup(allow)

\* lines 361-364
effectiveAllowOf(allow, deny) ==
  IF Len(allow) > 0
  THEN SelectSeq(Dedup(allow), LAMBDA t : t \notin Range(deny))
  ELSE <<>>

\* line 365
effectiveDenyOf(deny) == Dedup(deny)

\* lines 367-382
resolvedResult(chainNow, allow, deny) ==
  LET effectiveAllow == effectiveAllowOf(allow, deny)
      effectiveDeny == effectiveDenyOf(deny)
      policy == Policy(IF Len(effectiveAllow) > 0 THEN Some(effectiveAllow) ELSE None,
                       IF Len(effectiveDeny) > 0 THEN Some(effectiveDeny) ELSE None)
  IN IF ~IsSome(policy.allow) /\ ~IsSome(policy.deny) THEN None
     ELSE Some([policy |-> policy,
                trace |-> [resolvedFrom |-> chainNow,
                           effectiveAllow |-> effectiveAllow,
                           effectiveDeny |-> effectiveDeny]])

\* lines 326-336
ResolveStart ==
  /\ rpc = "call"
  /\ LET profile == Lookup(namedProfiles, profileName)
     IN IF ~IsSome(profile)
        THEN /\ rpc' = "done"
             /\ UNCHANGED <<chain, visited, current>>
        ELSE /\ chain' = <<profileName>>
             /\ visited' = {profileName}
             /\ current' = profile
             /\ rpc' = "walk"
  /\ allAllow' = <<>>
  /\ allDeny' = <<>>
  /\ result' = None
  /\ UNCHANGED <<profileName, namedProfiles>>
  /\ UNCHANGED outsideResolver

\* lines 338-359: one iteration of the while loop
WalkLevel ==
  /\ rpc = "walk"
  /\ LET cur == Get(current)
         allow1 == allAllow \o OrEmpty(cur.allow)
         deny1 == allDeny \o OrEmpty(cur.deny)
         hasParent == IsSome(cur.extends) /\ Get(cur.extends) # ""
         parentName == Get(cur.extends)
     IN IF ~hasParent \/ walkStops(chain, visited, parentName)
        THEN /\ allAllow' = allow1
             /\ allDeny' = deny1
             /\ rpc' = "merge"
             /\ UNCHANGED <<chain, visited, current>>
        ELSE LET builtIn == Lookup(CORE_TOOL_PROFILES, parentName)
                 next == Lookup(namedProfiles, parentName)
             IN /\ visited' = visited \cup {parentName}
                /\ chain' = Append(chain, parentName)
                /\ IF IsSome(builtIn)
                   THEN /\ allAllow' = allow1 \o OrEmpty(Get(builtIn).allow)
                        /\ allDeny' = deny1 \o OrEmpty(Get(builtIn).deny)
                        /\ rpc' = "merge"
                        /\ UNCHANGED current
                   ELSE /\ allAllow' = allow1
                        /\ allDeny' = deny1
                        /\ current' = next
                        /\ rpc' = IF IsSome(next) THEN "walk" ELSE "merge"
  /\ UNCHANGED <<profileName, namedProfiles, result>>
  /\ UNCHANGED outsideResolver

\* lines 361-382
MergeLevels ==
  /\ rpc = "merge"
  /\ result' = resolvedResult(chain, allAllow, allDeny)
  /\ rpc' = "done"
  /\ UNCHANGED <<profileName, namedProfiles, chain, visited, current, allAllow, allDeny>>
  /\ UNCHANGED outsideResolver

NextResolve == ResolveStart \/ WalkLevel \/ MergeLevels

\* ------------------------------------------------------------------------
\* resolveToolProfilePolicy (tool-policy-shared.ts) and the built-in
\* resolver it asks first.  An absent profile and the empty name are both
\* falsy and are the name "".
\* ------------------------------------------------------------------------
\* tool-catalog.ts lines 287-302
resolveCoreToolProfilePolicy(profile) ==
  IF profile = "" THEN None
  ELSE LET resolved == Lookup(CORE_TOOL_PROFILES, profile)
       IN IF ~IsSome(resolved) THEN None
          ELSE IF ~IsSome(Get(resolved).allow) /\ ~IsSome(Get(resolved).deny) THEN None
          ELSE Some(Policy(Get(resolved).allow, Get(resolved).deny))

\* lines 51-55: the built-in result if there is one, else the named resolver
ResolveProfile ==
  /\ rpc = "entry"
  /\ LET coreResult == resolveCoreToolProfilePolicy(profileName)
     IN IF IsSome(coreResult)
        THEN /\ resolvedPolicy' = coreResult
             /\ rpc' = "returned"
        ELSE IF profileName # "" /\ namedProfilesGiven
        THEN /\ rpc' = "call"
             /\ UNCHANGED resolvedPolicy
        ELSE /\ resolvedPolicy' = None
             /\ rpc' = "returned"
  /\ UNCHANGED <<profileName, namedProfiles, chain, visited, current, allAllow,
                 allDeny, result, namedProfilesGiven, retained>>
  /\ UNCHANGED outsideProfile

\* lines 56-59: the policy of the named result, or undefined
ReturnPolicy ==
  /\ rpc = "done"
  /\ resolvedPolicy' = IF IsSome(result) THEN Some(Get(result).policy) ELSE None
  /\ rpc' = "returned"
  /\ UNCHANGED <<profileName, namedProfiles, chain, visited, current, allAllow,
                 allDeny, result, namedProfilesGiven, retained>>
  /\ UNCHANGED outsideProfile

\* the tools of five kinds that the resolved policy is applied to
ProfileToolList ==
  << Tool(id_read, None), Tool(s_Bash, None), Tool(id_tts, None),
     Tool(id_session_status, None), Tool(s_p1, Some(s_foo)) >>

\* the resolved policy is expanded and given to the policy filter; without
\* a policy nothing is filtered
FilterTools ==
  /\ rpc = "returned"
  /\ retained' =
       IF IsSome(resolvedPolicy)
       THEN filterToolsByPolicy(ProfileToolList,
              Get(expandPolicyWithPluginGroups(resolvedPolicy,
                                               buildPluginToolGroups(ProfileToolList))))
       ELSE ProfileToolList
  /\ rpc' = "filtered"
  /\ UNCHANGED <<profileName, namedProfiles, chain, visited, current, allAllow,
                 allDeny, result, namedProfilesGiven, resolvedPolicy>>
  /\ UNCHANGED outsideProfile

NextProfile ==
  ResolveProfile \/ ResolveStart \/ WalkLevel \/ MergeLevels \/ ReturnPolicy \/ FilterTools

\* ------------------------------------------------------------------------
\* Named-profile maps given to the resolver: a chain of MaxProfiles
\* profiles of which the first chainLen extend one another, the last of
\* them extending tail; optionally a user profile named like a built-in.
\* ------------------------------------------------------------------------
MaxProfiles == 6

ProfileNameSeq == <<"a", "b", "c", "d", "e", "f", "g", "h">>

ProfileTools == <<id_read, id_exec, id_write, id_edit, id_process, id_message, id_tts, id_image>>

TailOptions == {"none", "self", "first", "ghost", "coding", "full", "constructor"}

ContentOptions == 1..4

ProfileContent(v, i) ==
  CASE v = 1 -> [allow |-> Some(<<ProfileTools[i]>>), deny |-> None]
    [] v = 2 -> IF i % 2 = 1
                THEN [allow |-> Some(<<id_read, id_exec, id_read>>), deny |-> None]
                ELSE [allow |-> Some(<<id_read>>), deny |-> Some(<<id_exec, id_exec>>)]
    [] v = 3 -> [allow |-> Some(<<id_read>>), deny |-> Some(<<id_read>>)]
    [] v = 4 -> IF i % 2 = 1
                THEN [allow |-> None, deny |-> Some(<<id_session_status, s_Exec>>)]
                ELSE [allow |-> None, deny |-> None]

ProfileExtends(chainLen, tail, i) ==
  IF i < chainLen THEN Some(ProfileNameSeq[i + 1])
  ELSE IF i > chainLen \/ tail = "none" THEN None
  ELSE IF tail = "self" THEN Some(ProfileNameSeq[i])
  ELSE IF tail = "first" THEN Some(ProfileNameSeq[1])
  ELSE Some(tail)

ShadowingProfile == NamedProfile(None, Some(<<id_tts>>), Some(<<id_browser>>))

ProfileMap(chainLen, tail, v, shadow) ==
  LET names == {ProfileNameSeq[i] : i \in 1..MaxProfiles}
      index(n) == CHOOSE i \in 1..MaxProfiles : ProfileNameSeq[i] = n
  IN [n \in names \cup (IF shadow THEN {"coding", "full"} ELSE {}) |->
        IF n \in names
        THEN NamedProfile(ProfileExtends(chainLen, tail, index(n)),
                          ProfileContent(v, index(n)).allow,
                          ProfileContent(v, index(n)).deny)
        ELSE ShadowingProfile]

ProfileMaps ==
  {ProfileMap(k, tail, v, shadow) :
     k \in 1..MaxProfiles, tail \in TailOptions, v \in ContentOptions, shadow \in BOOLEAN}

StartNames ==
  {ProfileNameSeq[1], ProfileNameSeq[2], ProfileNameSeq[MaxProfiles],
   "ghost", "coding", "constructor"}

InitResolve ==
  /\ profileName \in StartNames
  /\ namedProfiles \in ProfileMaps
  /\ chain = <<>>
  /\ visited = {}
  /\ current = None
  /\ allAllow = <<>>
  /\ allDeny = <<>>
  /\ result = None
  /\ rpc = "call"
  /\ PipelineIdle
  /\ NormalizerIdle
  /\ SessionIdle
  /\ CallerIdle

SpecResolve == InitResolve /\ [][NextResolve]_vars

\* the profile names given to resolveToolProfilePolicy: those above, the
\* other built-in names, and the absent name
ProfileNames == StartNames \cup {"minimal", "messaging", "full", ""}

InitProfile ==
  /\ profileName \in ProfileNames
  /\ namedProfilesGiven \in BOOLEAN
  /\ namedProfiles \in (IF namedProfilesGiven THEN ProfileMaps ELSE {<<>>})
  /\ chain = <<>>
  /\ visited = {}
  /\ current = None
  /\ allAllow = <<>>
  /\ allDeny = <<>>
  /\ result = None
  /\ rpc = "entry"
  /\ resolvedPolicy = None
  /\ retained = <<>>
  /\ PipelineIdle
  /\ NormalizerIdle
  /\ SessionIdle

SpecProfile == InitProfile /\ [][NextProfile]_vars

\* ------------------------------------------------------------------------
\* Vocabulary of the resolver's properties
\* ------------------------------------------------------------------------
NoDuplicates(s) == \A i, j \in 1..Len(s) : s[i] = s[j] => i = j

Returned == rpc = "done" /\ IsSome(result)

\* what the level chain[j] contributes: the first level is the profile asked
\* for; a later level is a built-in when its name is one, else a named profile
LevelOf(j) ==
  LET builtIn == Lookup(CORE_TOOL_PROFILES, chain[j])
      named == Lookup(namedProfiles, chain[j])
  IN IF j > 1 /\ IsSome(builtIn) THEN Get(builtIn)
     ELSE IF IsSome(named) THEN Get(named)
     ELSE InheritedObject

\* an upper bound of the steps the call still takes: the loop runs once
\* more for every name the chain may still take
StepsLeft ==
  CASE rpc = "call" -> MAX_EXTENDS_DEPTH + 3
    [] rpc = "walk" -> MAX_EXTENDS_DEPTH + 2 - Len(chain)
    [] rpc = "merge" -> 1
    [] OTHER -> 0

LevelAllow(j) == Range(OrEmpty(LevelOf(j).allow))

LevelDeny(j) == Range(OrEmpty(LevelOf(j).deny))

\* ------------------------------------------------------------------------
\* C12  Named profile resolution terminates for every named-profile map
\*      (self-references, cycles, extends to undefined profiles, chains
\*      longer than 5): the walk never holds more than 5 names nor the same
\*      name twice, the trace's resolvedFrom is that chain, and every step
\*      of the call lowers a natural number (StepsLeft), so the call
\*      returns after finitely many steps.
\* ------------------------------------------------------------------------
C12_ResolutionTerminates ==
  /\ [](/\ Len(chain) <= MAX_EXTENDS_DEPTH
        /\ NoDuplicates(chain)
        /\ Range(chain) = visited
        /\ StepsLeft \in Nat
        /\ Returned => Get(result).trace.resolvedFrom = chain)
  /\ [][StepsLeft' < StepsLeft]_vars

\* the walk stopped at the cap: five names held, and the fifth extends a
\* defined profile that was not visited
C12_Witness ==
  /\ Returned
  /\ Len(chain) = MAX_EXTENDS_DEPTH
  /\ IsSome(current)
  /\ IsSome(Get(current).extends)
  /\ Get(Get(current).extends) \notin visited
  /\ Get(Get(current).extends) \in DOMAIN namedProfiles

\* ------------------------------------------------------------------------
\* C13  Deny wins in named-profile resolution: in a resolved policy the
\*      allow and deny lists are disjoint and free of duplicates; an entry
\*      denied at any visited level (a built-in parent included) is not in
\*      effectiveAllow, and effectiveDeny holds every deny entry of every
\*      visited level.
\* ------------------------------------------------------------------------
C13_DenyWinsInResolution ==
  Returned =>
    LET policy == Get(result).policy
        trace == Get(result).trace
    IN /\ Range(OrEmpty(policy.allow)) \cap Range(OrEmpty(policy.deny)) = {}
       /\ NoDuplicates(OrEmpty(policy.allow))
       /\ NoDuplicates(OrEmpty(policy.deny))
       /\ OrEmpty(policy.allow) = trace.effectiveAllow
       /\ OrEmpty(policy.deny) = trace.effectiveDeny
       /\ \A j \in 1..Len(chain) : \A d \in LevelDeny(j) :
            /\ d \notin Range(trace.effectiveAllow)
            /\ d \in Range(trace.effectiveDeny)

\* a level denies an entry that another level allows, and something is
\* still allowed
C13_Witness ==
  /\ Returned
  /\ IsSome(Get(result).policy.allow)
  /\ \E j, k \in 1..Len(chain) : j # k /\ LevelDeny(j) \cap LevelAllow(k) # {}

\* ------------------------------------------------------------------------
\* Reset command handler (commands-tools-reset.ts) and the session override
\* store it updates.  A record has the four override fields and, standing
\* for every other field of a session entry, the field model; each field is
\* optional.
\* ------------------------------------------------------------------------
OverrideFields ==
  {"toolsProfileOverride", "toolsAllowOverride", "toolsDenyOverride",
   "toolsPromptListingOverride"}

Record(profile, allow, deny, listing, model) ==
  [toolsProfileOverride |-> profile, toolsAllowOverride |-> allow,
   toolsDenyOverride |-> deny, toolsPromptListingOverride |-> listing,
   model |-> model]

EmptyRecord == Record(None, None, None, None, None)

\* truthiness of an optional string and of optionalList?.length
TruthyText(o) == IsSome(o) /\ Get(o) # ""

NonEmptyList(o) == IsSome(o) /\ Len(Get(o)) > 0

NullResult == [kind |-> "null", reply |-> None, shouldContinue |-> TRUE]

NotReturned == [kind |-> "pending", reply |-> None, shouldContinue |-> TRUE]

\* the promise of the handler is rejected with the error of the store update
Thrown == [kind |-> "error", reply |-> None, shouldContinue |-> TRUE]

\* { reply?: { text }, shouldContinue: false }
Result(reply) == [kind |-> "result", reply |-> reply, shouldContinue |-> FALSE]

MsgNoSession == "Cannot reset tool overrides: no active session."

MsgCleared == "Tool overrides cleared. Tools restored to config baseline."

MsgNoneActive == "No tool overrides were active."

\* variant of lines 13-15 that lets the message of an unauthorized sender
\* fall through
earlyReturnUnauthorizedNull(p) ==
  IF ~p.allowTextCommands THEN Some(NullResult)
  ELSE IF p.commandBodyNormalized # "/tools:reset" THEN Some(NullResult)
  ELSE IF ~p.isAuthorizedSender THEN Some(NullResult)
  ELSE IF ~TruthyText(p.storePath) \/ ~TruthyText(p.sessionKey)
       THEN Some(Result(Some(MsgNoSession)))
  ELSE None

\* variant of lines 13-22 with the two checks in the other order
earlyReturnSessionFirst(p) ==
  IF ~p.allowTextCommands THEN Some(NullResult)
  ELSE IF p.commandBodyNormalized # "/tools:reset" THEN Some(NullResult)
  ELSE IF ~TruthyText(p.storePath) \/ ~TruthyText(p.sessionKey)
       THEN Some(Result(Some(MsgNoSession)))
  ELSE IF ~p.isAuthorizedSender THEN Some(Result(None))
  ELSE None

\* variant of line 17 that only looks at the session key
earlyReturnKeyOnly(p) ==
  IF ~p.allowTextCommands THEN Some(NullResult)
  ELSE IF p.commandBodyNormalized # "/tools:reset" THEN Some(NullResult)
  ELSE IF ~p.isAuthorizedSender THEN Some(Result(None))
  ELSE IF ~TruthyText(p.sessionKey) THEN Some(Result(Some(MsgNoSession)))
  ELSE None

\* lines 8-22: the returns before the reset; None when the handler goes on
earlyReturn(p) ==
  IF ~p.allowTextCommands THEN Some(NullResult)
  ELSE IF p.commandBodyNormalized # "/tools:reset" THEN Some(NullResult)
  ELSE IF ~p.isAuthorizedSender THEN Some(Result(None))
  ELSE IF ~TruthyText(p.storePath) \/ ~TruthyText(p.sessionKey)
       THEN Some(Result(Some(MsgNoSession)))
  ELSE None

\* lines 24-30, entry being params.sessionEntry
hadOverridesOf(entry) ==
  /\ IsSome(entry)
  /\ \/ TruthyText(Get(entry).toolsProfileOverride)
     \/ NonEmptyList(Get(entry).toolsAllowOverride)
     \/ NonEmptyList(Get(entry).toolsDenyOverride)
     \/ TruthyText(Get(entry).toolsPromptListingOverride)

\* the four override fields become undefined, every other field stays
clearOverrides(rec) ==
  [f \in DOMAIN rec |-> IF f \in OverrideFields THEN None ELSE rec[f]]

\* variant of lines 35-41 that leaves the deny override in place
resetMutatorButDeny(rec) ==
  [f \in DOMAIN rec |-> IF f \in OverrideFields \ {"toolsDenyOverride"} THEN None ELSE rec[f]]

\* lines 35-41: the update function given to updateSessionStoreEntry
resetMutator(rec) == clearOverrides(rec)

\* variant of lines 44-49 that leaves the in-memory entry as it is
clearEntrySkipped(entry) == entry

\* lines 44-49, entry being params.sessionEntry
clearEntry(entry) == IF IsSome(entry) THEN Some(clearOverrides(Get(entry))) ELSE None

\* variant that clears the in-memory entry before the update is awaited
entryBeforeUpdateCleared(entry) == clearEntry(entry)

\* lines 24-42: before the await params.sessionEntry is read, never written
entryBeforeUpdate(entry) == entry

\* lines 51-53
replyMessage(had) == IF had THEN MsgCleared ELSE MsgNoneActive

\* ------------------------------------------------------------------------
\* Processes: two calls of the handler for the session SessionKey, and one
\* other caller of the store's update.  updateSessionStoreEntry takes the
\* lock of the key and loads the record (or an empty one), then applies the
\* mutator, writes the record and releases the lock.
\* ------------------------------------------------------------------------
Handlers == {"r1", "r2"}

Updater == "u"

Procs == Handlers \cup {Updater}

SessionKey == "k1"

Keys == {"k1", "k2"}

KeyOf(p) == IF p \in Handlers THEN Get(handlerParams[p].sessionKey)
            ELSE Get(updaterCall).key

\* an update by another caller sets one field
SetField(rec, field, value) == [rec EXCEPT ![field] = value]

MutatorOf(p, rec) ==
  IF p \in Handlers THEN resetMutator(rec)
  ELSE SetField(rec, Get(updaterCall).field, Get(updaterCall).value)

UpdaterCalls ==
  { [key |-> "k1", field |-> "toolsProfileOverride", value |-> Some("coding")],
    [key |-> "k1", field |-> "model", value |-> Some("m2")],
    [key |-> "k2", field |-> "toolsDenyOverride", value |-> Some(<<"exec">>)] }

\* variant of the store without mutual exclusion on the key
lockIgnored(p) == TRUE

lockFree(p) == ~IsSome(lock[KeyOf(p)])

\* lines 8-30: the early returns, or hadOverrides and the call of the update
Enter(h) ==
  /\ ppc[h] = "start"
  /\ LET early == earlyReturn(handlerParams[h])
     IN IF IsSome(early)
        THEN /\ handlerResult' = [handlerResult EXCEPT ![h] = Get(early)]
             /\ ppc' = [ppc EXCEPT ![h] = "done"]
             /\ UNCHANGED <<hadOverrides, sessionEntry>>
        ELSE /\ hadOverrides' = [hadOverrides EXCEPT ![h] = hadOverridesOf(sessionEntry)]
             /\ sessionEntry' = entryBeforeUpdate(sessionEntry)
             /\ ppc' = [ppc EXCEPT ![h] = "update"]
             /\ UNCHANGED handlerResult
  /\ UNCHANGED <<store, lock, handlerParams, existing, updaterCall>>
  /\ UNCHANGED outsideSession

\* another caller calls update(store_path, session_key, mutator)
UpdaterBegin ==
  /\ ppc[Updater] = "start"
  /\ \E call \in UpdaterCalls : updaterCall' = Some(call)
  /\ ppc' = [ppc EXCEPT ![Updater] = "update"]
  /\ UNCHANGED <<store, lock, sessionEntry, handlerParams, existing,
                 hadOverrides, handlerResult>>
  /\ UNCHANGED outsideSession

\* update: take the key's lock and load the current record
UpdateLoad(p) ==
  /\ ppc[p] = "update"
  /\ lockFree(p)
  /\ lock' = [lock EXCEPT ![KeyOf(p)] = Some(p)]
  /\ existing' = [existing EXCEPT ![p] =
                    IF IsSome(store[KeyOf(p)]) THEN store[KeyOf(p)] ELSE Some(EmptyRecord)]
  /\ ppc' = [ppc EXCEPT ![p] = "loaded"]
  /\ UNCHANGED <<store, sessionEntry, handlerParams, hadOverrides, handlerResult,
                 updaterCall>>
  /\ UNCHANGED outsideSession

\* the other caller keeps the session's in-memory entry in step with the
\* record it writes
mirrored(p, entry) ==
  IF p = Updater /\ KeyOf(p) = SessionKey /\ IsSome(entry)
  THEN Some(MutatorOf(p, Get(entry)))
  ELSE entry

\* update: apply the mutator, write the record, release the lock
UpdateStore(p) ==
  /\ ppc[p] = "loaded"
  /\ store' = [store EXCEPT ![KeyOf(p)] = Some(MutatorOf(p, Get(existing[p])))]
  /\ lock' = [lock EXCEPT ![KeyOf(p)] = None]
  /\ sessionEntry' = mirrored(p, sessionEntry)
  /\ ppc' = [ppc EXCEPT ![p] = "stored"]
  /\ UNCHANGED <<handlerParams, existing, hadOverrides, handlerResult, updaterCall>>
  /\ UNCHANGED outsideSession

\* update: the store fails, or the call is cancelled, before the record is
\* written; the lock is given back, nothing is written, and the error
\* reaches the caller: line 32 throws, lines 44-58 are not run
UpdateFail(p) ==
  /\ ppc[p] \in {"update", "loaded"}
  /\ lock' = IF ppc[p] = "loaded" THEN [lock EXCEPT ![KeyOf(p)] = None] ELSE lock
  /\ handlerResult' = IF p \in Handlers THEN [handlerResult EXCEPT ![p] = Thrown]
                      ELSE handlerResult
  /\ ppc' = [ppc EXCEPT ![p] = "failed"]
  /\ UNCHANGED <<store, sessionEntry, handlerParams, existing, hadOverrides,
                 updaterCall>>
  /\ UNCHANGED outsideSession

\* lines 44-58: after the await, clear the in-memory entry and reply
ClearAndReply(h) ==
  /\ h \in Handlers
  /\ ppc[h] = "stored"
  /\ sessionEntry' = clearEntry(sessionEntry)
  /\ handlerResult' = [handlerResult EXCEPT ![h] = Result(Some(replyMessage(hadOverrides[h])))]
  /\ ppc' = [ppc EXCEPT ![h] = "done"]
  /\ UNCHANGED <<store, lock, handlerParams, existing, hadOverrides, updaterCall>>
  /\ UNCHANGED outsideSession

\* the update of the other caller returns
UpdaterReturn ==
  /\ ppc[Updater] = "stored"
  /\ ppc' = [ppc EXCEPT ![Updater] = "done"]
  /\ UNCHANGED <<store, lock, sessionEntry, handlerParams, existing, hadOverrides,
                 handlerResult, updaterCall>>
  /\ UNCHANGED outsideSession

NextSession ==
  \/ \E h \in Handlers : Enter(h)
  \/ UpdaterBegin
  \/ \E p \in Procs : UpdateLoad(p)
  \/ \E p \in Procs : UpdateStore(p)
  \/ \E p \in Procs : UpdateFail(p)
  \/ \E h \in Handlers : ClearAndReply(h)
  \/ UpdaterReturn

\* ------------------------------------------------------------------------
\* Calls and records the handler is run on
\* ------------------------------------------------------------------------
Params(allowed, body, authorized, storePath, sessionKey) ==
  [allowTextCommands |-> allowed, commandBodyNormalized |-> body,
   isAuthorizedSender |-> authorized, storePath |-> storePath,
   sessionKey |-> sessionKey]

StorePath == Some("/sessions.json")

ResetCall == Params(TRUE, "/tools:reset", TRUE, StorePath, Some(SessionKey))

UnauthorizedCall == Params(TRUE, "/tools:reset", FALSE, StorePath, Some(SessionKey))

NoKeyCall == Params(TRUE, "/tools:reset", TRUE, StorePath, None)

FirstCalls ==
  { ResetCall, UnauthorizedCall, NoKeyCall,
    Params(FALSE, "/tools:reset", TRUE, StorePath, Some(SessionKey)),
    Params(TRUE, "/tools", TRUE, StorePath, Some(SessionKey)),
    Params(TRUE, "/tools:reset", FALSE, None, None),
    Params(TRUE, "/tools:reset", TRUE, None, Some(SessionKey)),
    Params(TRUE, "/tools:reset", TRUE, Some(""), Some(SessionKey)) }

SecondCalls == { ResetCall, UnauthorizedCall, NoKeyCall }

RecordPool ==
  { EmptyRecord,
    Record(Some("coding"), Some(<<"read">>), None, None, None),
    Record(None, None, Some(<<"exec">>), None, Some("m1")),
    Record(Some(""), Some(<<>>), None, None, Some("m1")),
    Record(None, None, None, Some("names"), None) }

InitSession ==
  /\ \E rec1 \in {None} \cup {Some(r) : r \in RecordPool},
        rec2 \in {None, Some(Record(None, None, None, Some("names"), None))} :
       store = [k \in Keys |-> IF k = SessionKey THEN rec1 ELSE rec2]
  /\ lock = [k \in Keys |-> None]
  /\ sessionEntry \in {None} \cup {Some(r) : r \in RecordPool}
  /\ \E c1 \in FirstCalls, c2 \in SecondCalls :
       handlerParams = [h \in Handlers |-> IF h = "r1" THEN c1 ELSE c2]
  /\ ppc = [p \in Procs |-> "start"]
  /\ existing = [p \in Procs |-> None]
  /\ hadOverrides = [h \in Handlers |-> FALSE]
  /\ handlerResult = [h \in Handlers |-> NotReturned]
  /\ updaterCall = None
  /\ PipelineIdle
  /\ NormalizerIdle
  /\ ResolverIdle
  /\ CallerIdle

SpecSession == InitSession /\ [][NextSession]_vars

\* ------------------------------------------------------------------------
\* Vocabulary of the session properties
\* ------------------------------------------------------------------------
OverridesAbsent(rec) == \A f \in OverrideFields : rec[f] = None

Persisted(k) == IF IsSome(store[k]) THEN Get(store[k]) ELSE EmptyRecord

\* the step in which the update of p writes the store
WritesStore(p) == ppc[p] = "loaded" /\ ppc'[p] = "stored"

\* the step in which the handler leaves its first synchronous part
Enters(h) == ppc[h] = "start" /\ ppc'[h] # "start"

\* the step in which the handler replies after its reset
Replies(h) == ppc[h] = "stored" /\ ppc'[h] = "done"

ResetReplied(h) ==
  /\ ppc[h] = "done"
  /\ handlerResult[h].reply \in {Some(MsgCleared), Some(MsgNoneActive)}

NoOtherUpdate == ppc[Updater] = "start"

IsResetMessage(h) == handlerParams[h].commandBodyNormalized = "/tools:reset"

MissingSession(h) ==
  \/ ~TruthyText(handlerParams[h].storePath)
  \/ ~TruthyText(handlerParams[h].sessionKey)

\* ------------------------------------------------------------------------
\* C14  A successful /tools:reset leaves the four override fields absent
\*      in the persisted record (at its store write, and still at its reply
\*      when no other update ran) and in the in-memory entry (at its
\*      reply); every other field keeps the value of the freshly read
\*      record, respectively of the in-memory entry.
\* ------------------------------------------------------------------------
C14_ResetClearsOnlyOverrides ==
  [][\A h \in Handlers :
       /\ WritesStore(h) =>
            /\ existing[h] = Some(Persisted(KeyOf(h)))
            /\ OverridesAbsent(Get(store'[KeyOf(h)]))
            /\ Get(store'[KeyOf(h)]).model = Get(existing[h]).model
       /\ Replies(h) =>
            /\ IsSome(sessionEntry') = IsSome(sessionEntry)
            /\ IsSome(sessionEntry) =>
                 /\ OverridesAbsent(Get(sessionEntry'))
                 /\ Get(sessionEntry').model = Get(sessionEntry).model
            /\ NoOtherUpdate => OverridesAbsent(Persisted(KeyOf(h)))
  ]_vars

\* a reset that found a deny override and another field has replied
C14_Witness ==
  /\ ResetReplied("r1")
  /\ Get(existing["r1"]).toolsDenyOverride # None
  /\ Persisted(SessionKey) = Record(None, None, None, None, Some("m1"))
  /\ sessionEntry = Some(Record(None, None, None, None, Some("m1")))

\* ------------------------------------------------------------------------
\* C15  Reset is idempotent: a reset that starts after another reset of the
\*      session has replied, with no update by anyone else, computes
\*      hadOverrides = false, leaves the persisted record as the first
\*      reset left it, and replies "No tool overrides were active.".
\* ------------------------------------------------------------------------
C15_ResetIdempotent ==
  [][\A h \in Handlers :
       LET first == CHOOSE g \in Handlers : g # h
       IN /\ (Enters(h) /\ ppc'[h] = "update" /\ ResetReplied(first) /\ NoOtherUpdate)
               => ~hadOverrides'[h]
          /\ (WritesStore(h) /\ (ppc[first] = "stored" \/ ResetReplied(first)) /\ NoOtherUpdate)
               => store' = store
          /\ (Replies(h) /\ ~hadOverrides[h])
               => handlerResult'[h] = Result(Some(MsgNoneActive))
  ]_vars

\* the first reset cleared overrides of both copies, the second found none
C15_Witness ==
  /\ handlerResult["r1"].reply = Some(MsgCleared)
  /\ handlerResult["r2"].reply = Some(MsgNoneActive)
  /\ ppc["r2"] = "done"
  /\ ~OverridesAbsent(Get(existing["r1"]))
  /\ OverridesAbsent(Get(existing["r2"]))
  /\ IsSome(sessionEntry)
  /\ NoOtherUpdate

\* ------------------------------------------------------------------------
\* C16  The reset reply tells whether the stored record that the reset
\*      cleared had an override set: "Tool overrides cleared. ..." exactly
\*      when one of the four fields was set in it, "No tool overrides were
\*      active." exactly when none was, whatever the in-memory entry holds.
\* ------------------------------------------------------------------------
C16_ReplyReflectsStoredRecord ==
  \A h \in Handlers :
    ResetReplied(h) =>
      (handlerResult[h].reply = Some(MsgCleared)
         <=> ~OverridesAbsent(Get(existing[h])))

C18_UnauthorizedIgnored ==
  [][\A h \in Handlers :
       (Enters(h) /\ IsResetMessage(h) /\ ~handlerParams[h].isAuthorizedSender)
       => /\ handlerResult'[h].reply = None
          /\ handlerParams[h].allowTextCommands => handlerResult'[h] = Result(None)
          /\ ppc'[h] = "done"
          /\ UNCHANGED <<store, lock, existing, sessionEntry>>
  ]_vars

\* an unauthorized sender without a session context, overrides being set
C18_Witness ==
  /\ ppc["r1"] = "done"
  /\ ~handlerParams["r1"].isAuthorizedSender
  /\ MissingSession("r1")
  /\ handlerResult["r1"] = Result(None)
  /\ ~OverridesAbsent(Persisted(SessionKey))
  /\ hadOverridesOf(sessionEntry)

\* ------------------------------------------------------------------------
\* C19  For every message whose normalized body is /tools:reset the handler
\*      returns a result with shouldContinue = false, never null, in all
\*      cases: authorized or not, session or not, text commands allowed or
\*      not.
\* ------------------------------------------------------------------------
C19_NeverFallsThrough ==
  \A h \in Handlers :
    (ppc[h] = "done" /\ IsResetMessage(h))
      => (handlerResult[h].kind = "result" /\ ~handlerResult[h].shouldContinue)

\* C19 as the handler has it: with text commands allowed the handler never
\* falls through on /tools:reset (authorized or not, session or not); with
\* text commands not allowed it returns null and the dispatcher goes on.
C19_NoFallThroughWhenAllowed ==
  \A h \in Handlers :
    (ppc[h] = "done" /\ IsResetMessage(h))
      => IF handlerParams[h].allowTextCommands
         THEN handlerResult[h].kind = "result" /\ ~handlerResult[h].shouldContinue
         ELSE handlerResult[h] = NullResult

\* one call returned null because text commands are not allowed, the other,
\* of an unauthorized sender, stopped the dispatcher
C19_Witness ==
  /\ ppc["r1"] = "done"
  /\ IsResetMessage("r1")
  /\ ~handlerParams["r1"].allowTextCommands
  /\ handlerResult["r1"] = NullResult
  /\ ppc["r2"] = "done"
  /\ ~handlerParams["r2"].isAuthorizedSender
  /\ handlerResult["r2"] = Result(None)

\* ------------------------------------------------------------------------
\* C20  Concurrent updates of one session key serialize: at most one update
\*      holds a key's record at a time, and every update writes its mutator
\*      applied to the record the previous update wrote (so no update is
\*      lost, also when a reset races with another update); an update of
\*      one key leaves the records of the other keys alone.
\* ------------------------------------------------------------------------
C20_UpdatesSerialize ==
  /\ [](\A p, q \in Procs :
          (ppc[p] = "loaded" /\ ppc[q] = "loaded" /\ KeyOf(p) = KeyOf(q)) => p = q)
  /\ [][\A p \in Procs :
          WritesStore(p) =>
            /\ store'[KeyOf(p)] = Some(MutatorOf(p, Persisted(KeyOf(p))))
            /\ \A k \in Keys \ {KeyOf(p)} : store'[k] = store[k]
     ]_vars

\* a reset waits for the key while another caller's update holds it, after
\* an earlier reset of the same key has completed
C20_Witness ==
  /\ ppc["r1"] = "update"
  /\ ppc[Updater] = "loaded"
  /\ KeyOf(Updater) = SessionKey
  /\ lock[SessionKey] = Some(Updater)
  /\ handlerResult["r2"].reply = Some(MsgCleared)

\* ------------------------------------------------------------------------
\* Vocabulary of the failed and concurrent resets
\* ------------------------------------------------------------------------
\* a step of the call of h
StepOf(h) == ppc'[h] # ppc[h]

Failed(h) == ppc[h] = "failed"

\* ------------------------------------------------------------------------
\* C21  Failure atomicity of reset: when the store update of a reset fails
\*      or is cancelled before the record is written, the handler ends
\*      with the error and without a reply, and none of the steps of that
\*      call, from its entry to the failure, has changed the persisted
\*      records or the in-memory session entry.
\* ------------------------------------------------------------------------
C21_FailedResetChangesNothing ==
  /\ [](\A h \in Handlers : Failed(h) => handlerResult[h] = Thrown)
  /\ [][\A h \in Handlers :
          /\ Failed(h) => (ppc'[h] = "failed" /\ handlerResult'[h] = handlerResult[h])
          /\ (StepOf(h) /\ ppc'[h] \in {"update", "loaded", "failed"})
               => (store' = store /\ sessionEntry' = sessionEntry)
     ]_vars

\* a reset failed after it had loaded the record; both copies still hold
\* their overrides, and nobody else has run
C21_Witness ==
  /\ Failed("r1")
  /\ IsSome(existing["r1"])
  /\ lock[SessionKey] = None
  /\ ppc["r2"] = "start" /\ ppc[Updater] = "start"
  /\ ~OverridesAbsent(Persisted(SessionKey))
  /\ hadOverridesOf(sessionEntry)
  /\ hadOverrides["r1"]

\* no reset and no update of the session is in flight
Quiescent == \A p \in Procs : ppc[p] \in {"start", "done", "failed"}

\* the override fields of the in-memory entry and of the persisted record
CopiesAgree ==
  \A f \in OverrideFields : Get(sessionEntry)[f] = Persisted(SessionKey)[f]

VerdictOn(toolList, step) ==
  stripPluginOnlyAllowlist(Get(step.policy), buildPluginToolGroups(toolList),
                           coreToolNames(toolList))

\* ------------------------------------------------------------------------
\* C23  The verdict of the safety filter for a step depends only on the
\*      input tool list of the call and on the step's policy: whatever the
\*      earlier steps left in the working list, the step filters the
\*      working list with the policy that the verdict on the input list
\*      yields, expanded with the plugin groups of the input list, and it
\*      reports exactly the unknown entries of that verdict.
\* ------------------------------------------------------------------------
C23_VerdictFromInputOnly ==
  [][(AtStep /\ IsSome(Current.policy) /\ Current.stripPluginOnlyAllowlist) =>
       LET verdict == VerdictOn(tools, Current)
           expanded == expandPolicyWithPluginGroups(Some(verdict.policy),
                                                    buildPluginToolGroups(tools))
       IN /\ filtered' = filterToolsByPolicy(filtered, Get(expanded))
          /\ warnings' = warnings \o
               (IF Len(verdict.unknownAllowlist) > 0
                THEN << UnknownEntriesWarning(Current, verdict) >>
                ELSE <<>>)
  ]_vars

\* the first step denied the only core tool that the second step's allowlist
\* names; the second step's allowlist was kept all the same, and removed a
\* plugin tool that a verdict on the working list would have let through
C23_Witness ==
  /\ run = 1 /\ stepIndex = 3
  /\ HasDeny(steps[1]) /\ HasAllow(steps[2]) /\ steps[2].stripPluginOnlyAllowlist
  /\ \A t \in Range(tools) :
       (IsCoreTool(t) /\ Allowed(steps[2], t)) => Denied(steps[1], t)
  /\ ~VerdictOn(tools, steps[2]).strippedAllowlist
  /\ VerdictOn(stepFiltered(tools, tools, steps[1]), steps[2]).strippedAllowlist
  /\ \E t \in Range(tools) : ~IsCoreTool(t) /\ ~Denied(steps[1], t)
  /\ filtered = <<>>

\* ------------------------------------------------------------------------
\* Vocabulary of the profile resolver's properties
\* ------------------------------------------------------------------------
\* some entry of the list names the tool
NamedBy(entries, t) == \E e \in Range(entries) : EntryNames(e, t)

PolicyReturned == rpc \in {"returned", "filtered"}

BuiltInNames == {"minimal", "coding", "messaging", "full"}

\* the allow and the deny entries of the first j levels of the chain
RECURSIVE LevelsAllow(_)
LevelsAllow(j) == IF j = 0 THEN <<>> ELSE LevelsAllow(j - 1) \o OrEmpty(LevelOf(j).allow)

RECURSIVE LevelsDeny(_)
LevelsDeny(j) == IF j = 0 THEN <<>> ELSE LevelsDeny(j - 1) \o OrEmpty(LevelOf(j).deny)

\* ------------------------------------------------------------------------
\* C24  A named profile never permits more than its merged allowlist: when
\*      the extends chain of the named profile contributed at least one
\*      allow entry, every tool retained by filtering with the resolved
\*      policy is named in the concatenated allow lists and not in the
\*      concatenated deny lists; when every allow entry is denied, no tool
\*      is retained.
\* ------------------------------------------------------------------------
C24_NeverMoreThanAllowlist ==
  (rpc = "filtered" /\ Len(chain) > 0 /\ Len(allAllow) > 0) =>
    /\ \A t \in Range(retained) : NamedBy(allAllow, t) /\ ~NamedBy(allDeny, t)
    /\ Range(allAllow) \subseteq Range(allDeny) => retained = <<>>

\* ------------------------------------------------------------------------
\* C25  Built-in profile names always resolve to the built-in definition:
\*      resolveToolProfilePolicy with the name minimal, coding, messaging
\*      or full returns the built-in result (for full: none), whatever the
\*      named-profile map holds under that name; and an extends that names
\*      a built-in merges the built-in's lists, not those of a user
\*      profile of that name.
\* ------------------------------------------------------------------------
C25_BuiltInNamesResolveBuiltIn ==
  /\ (PolicyReturned /\ profileName \in BuiltInNames) =>
       /\ resolvedPolicy = resolveCoreToolProfilePolicy(profileName)
       /\ profileName = "full" => resolvedPolicy = None
  /\ (rpc \in {"merge", "done", "returned", "filtered"} /\ Len(chain) > 0) =>
       /\ allAllow = LevelsAllow(Len(chain))
       /\ allDeny = LevelsDeny(Len(chain))

====
